---- MODULE Spec2Model ----
(***************************************************************************)
(* The LLDP TLV codec of lldp-rust (src/src/tlv.rs and src/src/tlv/*.rs).  *)
(*                                                                         *)
(* A byte buffer is a sequence over 0..255.  A Rust String is represented  *)
(* by the sequence of its UTF-8 bytes (which is what String stores), a     *)
(* Vec<u8> by a sequence of bytes, a struct by a record that carries the   *)
(* struct's name in the field "kind".  A call either returns a value or    *)
(* panics; the result of a call is the record built by Ok or by Panic.     *)
(***************************************************************************)
EXTENDS Integers, Sequences, FiniteSets, TLC

(***************************************************************************)
(* Bounds of the model.                                                    *)
(***************************************************************************)
\* longest payload of the enumerated (short) input buffers
MaxPayload == 3
\* longest short text handed to the text constructors, in bytes
MaxText == 2
\* lines the model lets the program write to standard output
MaxPrinted == 1

(***************************************************************************)
(* Machine integers and their operators.                                   *)
(***************************************************************************)
RECURSIVE BitAnd(_, _)
BitAnd(a, b) ==
    IF a = 0 \/ b = 0 THEN 0
    ELSE 2 * BitAnd(a \div 2, b \div 2)
         + (IF a % 2 = 1 /\ b % 2 = 1 THEN 1 ELSE 0)

RECURSIVE BitOr(_, _)
BitOr(a, b) ==
    IF a = 0 THEN b
    ELSE IF b = 0 THEN a
    ELSE 2 * BitOr(a \div 2, b \div 2)
         + (IF a % 2 = 1 \/ b % 2 = 1 THEN 1 ELSE 0)

\* x << n on a u8 or u16 (w = 8, 16): the bits shifted out are lost
Shl(x, n, w) == (x * 2^n) % 2^w

\* x >> n
Shr(x, n) == x \div 2^n

\* x as u8
AsU8(x) == x % 256

\* A u32 is kept as its two 16-bit halves.
U32(hi, lo) == [hi |-> hi, lo |-> lo]

\* x as u32, for a u8 or u16 x
AsU32(x) == U32(0, x)

\* v << n on a u32, 0 <= n < 32: the bits shifted out are lost
Shl32(v, n) ==
    IF n < 16
    THEN U32(((v.hi % 2^(16 - n)) * 2^n) + (v.lo \div 2^(16 - n)),
             (v.lo % 2^(16 - n)) * 2^n)
    ELSE U32((v.lo % 2^(32 - n)) * 2^(n - 16), 0)

\* v >> n on a u32, 0 <= n < 32
Shr32(v, n) ==
    IF n < 16
    THEN U32(v.hi \div 2^n, ((v.hi % 2^n) * 2^(16 - n)) + (v.lo \div 2^n))
    ELSE U32(0, v.hi \div 2^(n - 16))

And32(a, b) == U32(BitAnd(a.hi, b.hi), BitAnd(a.lo, b.lo))

Or32(a, b) == U32(BitOr(a.hi, b.hi), BitOr(a.lo, b.lo))

\* v as u8, for a u32 v
U32AsU8(v) == v.lo % 256

(***************************************************************************)
(* enum TlvType and TryFrom<u8> for TlvType.                               *)
(***************************************************************************)
TlvType ==
    [EndOfLLDPDU |-> 0, ChassisId |-> 1, PortId |-> 2, Ttl |-> 3,
     PortDescription |-> 4, SystemName |-> 5, SystemDescription |-> 6,
     SystemCapabilities |-> 7, ManagementAddress |-> 8,
     OrganizationallySpecific |-> 127]

\* without the arm of OrganizationallySpecific
TlvType_try_from_no_org(v) ==
    CASE v = TlvType.EndOfLLDPDU -> "EndOfLLDPDU"
      [] v = TlvType.ChassisId -> "ChassisId"
      [] v = TlvType.PortId -> "PortId"
      [] v = TlvType.Ttl -> "Ttl"
      [] v = TlvType.PortDescription -> "PortDescription"
      [] v = TlvType.SystemName -> "SystemName"
      [] v = TlvType.SystemDescription -> "SystemDescription"
      [] v = TlvType.SystemCapabilities -> "SystemCapabilities"
      [] v = TlvType.ManagementAddress -> "ManagementAddress"
      [] OTHER -> "Err"

\* the name of the variant, or "Err" for Err(())
TlvType_try_from(v) ==
    CASE v = TlvType.EndOfLLDPDU -> "EndOfLLDPDU"
      [] v = TlvType.ChassisId -> "ChassisId"
      [] v = TlvType.PortId -> "PortId"
      [] v = TlvType.Ttl -> "Ttl"
      [] v = TlvType.PortDescription -> "PortDescription"
      [] v = TlvType.SystemName -> "SystemName"
      [] v = TlvType.SystemDescription -> "SystemDescription"
      [] v = TlvType.SystemCapabilities -> "SystemCapabilities"
      [] v = TlvType.ManagementAddress -> "ManagementAddress"
      [] v = TlvType.OrganizationallySpecific -> "OrganizationallySpecific"
      [] OTHER -> "Err"

(***************************************************************************)
(* Results of calls.                                                       *)
(***************************************************************************)
\* a value of enum Tlv: the variant and the struct it holds
Wrap(variant, inner) == [variant |-> variant, inner |-> inner]

\* no record
NoTlv == Wrap("None", [kind |-> "None"])

\* a call that returns the value t after writing that many lines to stdout
Return(t, lines) ==
    [ok |-> TRUE, unwinds |-> FALSE, msg |-> "", tlv |-> t, printed |-> lines]

Ok(t) == Return(t, 0)

\* the failure handed back as a value instead: the caller goes on
Panic_as_Err(msg) ==
    [ok |-> FALSE, unwinds |-> FALSE, msg |-> msg, tlv |-> NoTlv, printed |-> 0]

\* panic!(msg), a failed assert!/assert_eq!, a failed unwrap(): the call does
\* not return, the calling thread unwinds
Panic(msg) ==
    [ok |-> FALSE, unwinds |-> TRUE, msg |-> msg, tlv |-> NoTlv, printed |-> 0]

\* bytes[i] or bytes[a..b] beyond the end of the slice
IndexPanic == Panic("index out of bounds")

(***************************************************************************)
(* The two header octets, as every new_from_bytes reads them.              *)
(***************************************************************************)
\* let mut type_field = bytes[0] & 0b11111110; type_field = type_field >> 1;
type_field(bytes) == Shr(BitAnd(bytes[1], 254), 1)

\* let mut length = bytes[1] as usize; if bytes[0] & 1 == 1 { length += 1 << 9; }
length(bytes) ==
    IF BitAnd(bytes[1], 1) = 1 THEN bytes[2] + 2^9 ELSE bytes[2]

\* the envelope bytes every bytes() starts with, from tlv_type and len():
\*   let mut type_field = (self.tlv_type as u8) << 1;
\*   if length_field & (1 << 9) == 1 { type_field |= 1; }
\*   let length_field = length_field as u8;
header(tlv_type, length_field) ==
    << IF BitAnd(length_field, 2^9) = 1
         THEN BitOr(Shl(tlv_type, 1, 8), 1)
         ELSE Shl(tlv_type, 1, 8),
       AsU8(length_field) >>

(***************************************************************************)
(* String::from_utf8: the well-formed UTF-8 byte sequences.                *)
(***************************************************************************)
IsCont(b) == b >= 128 /\ b <= 191

\* the number of bytes of the character a byte starts, 0 when it starts none
Utf8Width(b) ==
    IF b <= 127 THEN 1
    ELSE IF b >= 194 /\ b <= 223 THEN 2
    ELSE IF b >= 224 /\ b <= 239 THEN 3
    ELSE IF b >= 240 /\ b <= 244 THEN 4
    ELSE 0

\* the range of the second byte after the first byte b
Utf8Second(b, c) ==
    CASE b = 224 -> c >= 160 /\ c <= 191
      [] b = 237 -> c >= 128 /\ c <= 159
      [] b = 240 -> c >= 144 /\ c <= 191
      [] b = 244 -> c >= 128 /\ c <= 143
      [] OTHER -> IsCont(c)

from_utf8_ok(vec) ==
    \A i \in 1..Len(vec) :
        IF IsCont(vec[i])
        THEN i > 1
        ELSE LET w == Utf8Width(vec[i]) IN
             /\ w > 0
             /\ i + w - 1 <= Len(vec)
             /\ \A j \in (i + 1)..(i + w - 1) :
                    /\ IsCont(vec[j])
                    /\ (j = i + 1 => Utf8Second(vec[i], vec[j]))
             /\ (i + w <= Len(vec) => ~IsCont(vec[i + w]))

(***************************************************************************)
(* EndOfLLDPDUTLV                                                          *)
(***************************************************************************)
EndOfLLDPDUTLV_new ==
    [kind |-> "EndOfLLDPDU", tlv_type |-> TlvType.EndOfLLDPDU]

\* without the check of the tag
EndOfLLDPDUTLV_new_from_bytes_any_tag(bytes) ==
    IF Len(bytes) < 1 THEN IndexPanic
    ELSE Ok(EndOfLLDPDUTLV_new)

EndOfLLDPDUTLV_new_from_bytes(bytes) ==
    IF Len(bytes) < 1 THEN IndexPanic
    ELSE IF type_field(bytes) # 0 THEN Panic("Wrong TLV Type for EndOfLLDPDU")
    ELSE Ok(EndOfLLDPDUTLV_new)

EndOfLLDPDUTLV_len(self) == 0

EndOfLLDPDUTLV_bytes(self) == <<0, 0>>

(***************************************************************************)
(* TtlTLV                                                                  *)
(***************************************************************************)
TtlTLV_new(ttl) == [kind |-> "Ttl", tlv_type |-> TlvType.Ttl, value |-> ttl]

\* without the assertion on the length field
TtlTLV_new_from_bytes_any_length(bytes) ==
    IF Len(bytes) < 1 THEN IndexPanic
    ELSE IF type_field(bytes) # TlvType.Ttl THEN Panic("Wrong TLV Type for TTL")
    ELSE IF Len(bytes) < 4 THEN IndexPanic
    ELSE Ok(TtlTLV_new(BitOr(Shl(bytes[3], 8, 16), bytes[4])))

TtlTLV_new_from_bytes(bytes) ==
    IF Len(bytes) < 1 THEN IndexPanic
    ELSE IF type_field(bytes) # TlvType.Ttl THEN Panic("Wrong TLV Type for TTL")
    ELSE IF Len(bytes) < 2 THEN IndexPanic
    ELSE IF length(bytes) # 2 THEN Panic("length should be 2 for TTL")
    ELSE IF Len(bytes) < 4 THEN IndexPanic
    ELSE Ok(TtlTLV_new(BitOr(Shl(bytes[3], 8, 16), bytes[4])))

TtlTLV_len(self) == 2

\* the two bytes of value the other way round
TtlTLV_bytes_little_endian(self) ==
    header(self.tlv_type, TtlTLV_len(self))
        \o << AsU8(BitAnd(self.value, 255)),
              AsU8(Shr(BitAnd(self.value, 65280), 8)) >>

TtlTLV_bytes(self) ==
    header(self.tlv_type, TtlTLV_len(self))
        \o << AsU8(Shr(BitAnd(self.value, 65280), 8)),
              AsU8(BitAnd(self.value, 255)) >>

(***************************************************************************)
(* PortDescriptionTLV                                                      *)
(***************************************************************************)
PortDescriptionTLV_new(value) ==
    [kind |-> "PortDescription", tlv_type |-> TlvType.PortDescription,
     value |-> value]

\* without the comparison of the length field with the length of the text
PortDescriptionTLV_new_from_bytes_unchecked(bytes) ==
    IF Len(bytes) < 1 THEN IndexPanic
    ELSE IF type_field(bytes) # TlvType.PortDescription
    THEN Panic("Wrong TLV Type for PortDescription")
    ELSE IF Len(bytes) < 2 THEN IndexPanic
    ELSE IF ~(length(bytes) < 512) THEN Panic("length overflow")
    ELSE LET vec == SubSeq(bytes, 3, Len(bytes)) IN
         IF ~from_utf8_ok(vec)
         THEN Panic("could not parse value for PortDescription")
         ELSE Ok([kind |-> "PortDescription",
                  tlv_type |-> TlvType.PortDescription, value |-> vec])

PortDescriptionTLV_new_from_bytes(bytes) ==
    IF Len(bytes) < 1 THEN IndexPanic
    ELSE IF type_field(bytes) # TlvType.PortDescription
    THEN Panic("Wrong TLV Type for PortDescription")
    ELSE IF Len(bytes) < 2 THEN IndexPanic
    ELSE IF ~(length(bytes) < 512) THEN Panic("length overflow")
    ELSE LET vec == SubSeq(bytes, 3, Len(bytes)) IN
         IF ~from_utf8_ok(vec)
         THEN Panic("could not parse value for PortDescription")
         ELSE IF length(bytes) # Len(vec) THEN Panic("Length field is incorrect")
         ELSE Ok([kind |-> "PortDescription",
                  tlv_type |-> TlvType.PortDescription, value |-> vec])

PortDescriptionTLV_len(self) == Len(self.value)

PortDescriptionTLV_bytes(self) ==
    header(self.tlv_type, PortDescriptionTLV_len(self)) \o self.value

(***************************************************************************)
(* SystemNameTLV                                                           *)
(***************************************************************************)
SystemNameTLV_new(name) ==
    [kind |-> "SystemName", tlv_type |-> TlvType.SystemName, value |-> name]

SystemNameTLV_new_from_bytes(bytes) ==
    IF Len(bytes) < 1 THEN IndexPanic
    ELSE IF type_field(bytes) # TlvType.SystemName
    THEN Panic("Wrong TLV Type for SystemName")
    ELSE IF Len(bytes) < 2 THEN IndexPanic
    ELSE IF ~(length(bytes) < 512) THEN Panic("length overflow")
    ELSE LET vec == SubSeq(bytes, 3, Len(bytes)) IN
         IF ~from_utf8_ok(vec)
         THEN Panic("could not parse value for PortDescription")
         ELSE IF length(bytes) # Len(vec) THEN Panic("Length field is incorrect")
         ELSE Ok([kind |-> "SystemName",
                  tlv_type |-> TlvType.SystemName, value |-> vec])

SystemNameTLV_len(self) == Len(self.value)

SystemNameTLV_bytes(self) ==
    header(self.tlv_type, SystemNameTLV_len(self)) \o self.value

(***************************************************************************)
(* SystemDescriptionTLV                                                    *)
(***************************************************************************)
SystemDescriptionTLV_new(description) ==
    [kind |-> "SystemDescription", tlv_type |-> TlvType.SystemDescription,
     value |-> description]

\* no "length overflow" assertion here, and the record is tagged
\* TlvType::PortDescription
SystemDescriptionTLV_new_from_bytes(bytes) ==
    IF Len(bytes) < 1 THEN IndexPanic
    ELSE IF type_field(bytes) # TlvType.SystemDescription
    THEN Panic("Wrong TLV Type for SystemDescription")
    ELSE IF Len(bytes) < 2 THEN IndexPanic
    ELSE LET vec == SubSeq(bytes, 3, Len(bytes)) IN
         IF ~from_utf8_ok(vec)
         THEN Panic("could not parse value for PortDescription")
         ELSE IF length(bytes) # Len(vec) THEN Panic("Length field is incorrect")
         ELSE Ok([kind |-> "SystemDescription",
                  tlv_type |-> TlvType.PortDescription, value |-> vec])

SystemDescriptionTLV_len(self) == Len(self.value)

SystemDescriptionTLV_bytes(self) ==
    header(self.tlv_type, SystemDescriptionTLV_len(self)) \o self.value

(***************************************************************************)
(* SystemCapabilitiesTLV                                                   *)
(***************************************************************************)
\* let mut mask = 1;
\* for _ in 0..16 {
\*     if (supported & mask == 0) && (enabled & mask != 0) { panic!(..) }
\*     mask <<= 1;
\* }
\* the loop one iteration short: for _ in 0..15
RECURSIVE InvalidSettings_15(_, _, _, _)
InvalidSettings_15(supported, enabled, mask, n) ==
    IF n <= 1 THEN FALSE
    ELSE IF BitAnd(supported, mask) = 0 /\ BitAnd(enabled, mask) # 0 THEN TRUE
    ELSE InvalidSettings_15(supported, enabled, Shl(mask, 1, 16), n - 1)

\* TRUE when the loop panics; n is the number of iterations left.  In new()
\* supported, enabled and mask are u16.
RECURSIVE InvalidSettings(_, _, _, _)
InvalidSettings(supported, enabled, mask, n) ==
    IF n = 0 THEN FALSE
    ELSE IF BitAnd(supported, mask) = 0 /\ BitAnd(enabled, mask) # 0 THEN TRUE
    ELSE InvalidSettings(supported, enabled, Shl(mask, 1, 16), n - 1)

\* the same loop in new_from_bytes(), where the three are u32
RECURSIVE InvalidSettings32(_, _, _, _)
InvalidSettings32(supported, enabled, mask, n) ==
    IF n = 0 THEN FALSE
    ELSE IF And32(supported, mask) = U32(0, 0) /\ And32(enabled, mask) # U32(0, 0)
    THEN TRUE
    ELSE InvalidSettings32(supported, enabled, Shl32(mask, 1), n - 1)

SystemCapabilitiesTLV_new(supported, enabled) ==
    IF InvalidSettings(supported, enabled, 1, 16)
    THEN Panic("Invalid Settings")
    ELSE Ok([kind |-> "SystemCapabilities",
             tlv_type |-> TlvType.SystemCapabilities,
             value |-> Or32(Shl32(AsU32(supported), 16), AsU32(enabled))])

\* without the assertion on the length field
SystemCapabilitiesTLV_new_from_bytes_any_length(bytes) ==
    IF Len(bytes) < 1 THEN IndexPanic
    ELSE IF type_field(bytes) # TlvType.SystemCapabilities
    THEN Panic("Wrong TLV Type for SystemCapabilities")
    ELSE IF Len(bytes) < 6 THEN IndexPanic
    ELSE LET supported == AsU32(BitOr(Shl(bytes[3], 8, 16), bytes[4]))
             enabled == AsU32(BitOr(Shl(bytes[5], 8, 16), bytes[6]))
         IN  IF InvalidSettings32(supported, enabled, AsU32(1), 16)
             THEN Panic("Invalid Settings")
             ELSE Ok([kind |-> "SystemCapabilities",
                      tlv_type |-> TlvType.SystemCapabilities,
                      value |-> Or32(Shl32(supported, 16), enabled)])

SystemCapabilitiesTLV_new_from_bytes(bytes) ==
    IF Len(bytes) < 1 THEN IndexPanic
    ELSE IF type_field(bytes) # TlvType.SystemCapabilities
    THEN Panic("Wrong TLV Type for SystemCapabilities")
    ELSE IF Len(bytes) < 2 THEN IndexPanic
    ELSE IF length(bytes) # 4
    THEN Panic("length for SystemCapabilitiesTlv should be 4")
    ELSE IF Len(bytes) < 6 THEN IndexPanic
    ELSE LET supported == AsU32(BitOr(Shl(bytes[3], 8, 16), bytes[4]))
             enabled == AsU32(BitOr(Shl(bytes[5], 8, 16), bytes[6]))
         IN  IF InvalidSettings32(supported, enabled, AsU32(1), 16)
             THEN Panic("Invalid Settings")
             ELSE Ok([kind |-> "SystemCapabilities",
                      tlv_type |-> TlvType.SystemCapabilities,
                      value |-> Or32(Shl32(supported, 16), enabled)])

SystemCapabilitiesTLV_len(self) == 4

\* with the four bytes of value in little-endian order
SystemCapabilitiesTLV_bytes_little_endian(self) ==
    << Shl(7, 1, 8), 4,
       U32AsU8(And32(self.value, AsU32(255))),
       U32AsU8(Shr32(And32(self.value, Shl32(AsU32(255), 8)), 8)),
       U32AsU8(Shr32(And32(self.value, Shl32(AsU32(255), 16)), 16)),
       U32AsU8(Shr32(And32(self.value, Shl32(AsU32(255), 24)), 24)) >>

SystemCapabilitiesTLV_bytes(self) ==
    << Shl(7, 1, 8), 4,
       U32AsU8(Shr32(And32(self.value, Shl32(AsU32(255), 24)), 24)),
       U32AsU8(Shr32(And32(self.value, Shl32(AsU32(255), 16)), 16)),
       U32AsU8(Shr32(And32(self.value, Shl32(AsU32(255), 8)), 8)),
       U32AsU8(And32(self.value, AsU32(255))) >>

\* the loop of supports() and enabled(): FALSE as soon as a bit of
\* capabilities (u16) is clear in value (u32) under mask; n is the number of
\* iterations left
RECURSIVE capabilities_loop(_, _, _, _, _)
capabilities_loop(value, capabilities, capabilities_mask, mask, n) ==
    IF n = 0 THEN TRUE
    ELSE IF BitAnd(capabilities, capabilities_mask) # 0
            /\ And32(value, mask) = U32(0, 0)
    THEN FALSE
    ELSE capabilities_loop(value, capabilities, Shl(capabilities_mask, 1, 16),
                           Shl32(mask, 1), n - 1)

SystemCapabilitiesTLV_supports(self, capabilities) ==
    capabilities_loop(self.value, capabilities, 1, Shl32(AsU32(1), 16), 16)

SystemCapabilitiesTLV_enabled(self, capabilities) ==
    capabilities_loop(self.value, capabilities, 1, AsU32(1), 16)

(***************************************************************************)
(* ManagementAddressTLV                                                    *)
(***************************************************************************)
\* with a catch-all arm that accepts every value
IFNumberingSubtype_try_from_any(v) == v \in 0..255

\* TryFrom<u8> for IFNumberingSubtype: Unknown = 1, IfIndex = 2, SystemPort = 3
IFNumberingSubtype_try_from_ok(v) == v = 1 \/ v = 2 \/ v = 3

\* std::net::IpAddr: V4 with 4 octets or V6 with 16
IpAddr_from(addr) == [v4 |-> Len(addr) = 4, octets |-> addr]

is_ipv4(value) == value.v4

ManagementAddressTLV_new(address, interface_number, ifsubtype, oid) ==
    [kind |-> "ManagementAddress", tlv_type |-> TlvType.ManagementAddress,
     subtype |-> ifsubtype, value |-> address,
     interface_number |-> interface_number, oid |-> oid]

\* u32::from_be_bytes
from_be_bytes(b) == U32(b[1] * 2^8 + b[2], b[3] * 2^8 + b[4])

\* with the limit of the oid length one higher: oid_length < 130
ManagementAddress_rest_130(bytes, address) ==
    LET len1 == bytes[3] - 1 IN
    IF Len(bytes) < 5 + len1 THEN IndexPanic
    ELSE IF ~IFNumberingSubtype_try_from_ok(bytes[5 + len1])
    THEN Panic("called Result::unwrap() on an Err value")
    ELSE IF Len(bytes) < 10 + len1 THEN IndexPanic
    ELSE LET oid_length == bytes[10 + len1] IN
         IF ~(oid_length < 130) THEN Panic("assertion failed: oid_length < 129")
         ELSE IF Len(bytes) < 10 + len1 + oid_length THEN IndexPanic
         ELSE Ok(ManagementAddressTLV_new(
                     address, from_be_bytes(SubSeq(bytes, 6 + len1, 9 + len1)),
                     bytes[5 + len1],
                     SubSeq(bytes, 11 + len1, 10 + len1 + oid_length)))

\* the part of new_from_bytes after the address: the fields are found at
\* offsets that depend on length = bytes[2] - 1
ManagementAddress_rest(bytes, address) ==
    LET len1 == bytes[3] - 1 IN
    IF Len(bytes) < 5 + len1 THEN IndexPanic
    ELSE IF ~IFNumberingSubtype_try_from_ok(bytes[5 + len1])
    THEN Panic("called Result::unwrap() on an Err value")
    ELSE IF Len(bytes) < 9 + len1 THEN IndexPanic
    ELSE LET interface_number ==
                 from_be_bytes(SubSeq(bytes, 6 + len1, 9 + len1))
         IN  IF Len(bytes) < 10 + len1 THEN IndexPanic
             ELSE LET oid_length == bytes[10 + len1] IN
                  IF ~(oid_length < 129) THEN Panic("assertion failed: oid_length < 129")
                  ELSE IF Len(bytes) < 10 + len1 + oid_length THEN IndexPanic
                  ELSE Ok(ManagementAddressTLV_new(
                              address, interface_number, bytes[5 + len1],
                              SubSeq(bytes, 11 + len1, 10 + len1 + oid_length)))

\* with an assertion that the length field counts the bytes after the header
ManagementAddressTLV_new_from_bytes_checked(bytes) ==
    IF Len(bytes) < 1 THEN IndexPanic
    ELSE IF type_field(bytes) # TlvType.ManagementAddress
    THEN Panic("Wrong TLV Type for ManagementAddress_Tlv")
    ELSE IF Len(bytes) < 2 THEN IndexPanic
    ELSE IF ~(length(bytes) < 512) THEN Panic("length overflow")
    ELSE IF length(bytes) # Len(bytes) - 2 THEN Panic("Length field is incorrect")
    ELSE IF Len(bytes) < 4 THEN IndexPanic
    ELSE LET mgmt_add_length == bytes[3]
             mgmt_add_subtype == bytes[4]
         IN  CASE mgmt_add_subtype = 1 ->
                    IF mgmt_add_length # 4 + 1
                    THEN Panic("assertion failed: mgmt_add_length == 4 + 1")
                    ELSE IF Len(bytes) < 8 THEN IndexPanic
                    ELSE ManagementAddress_rest(
                             bytes, IpAddr_from(SubSeq(bytes, 5, 8)))
               [] mgmt_add_subtype = 2 ->
                    IF mgmt_add_length # 16 + 1
                    THEN Panic("assertion failed: mgmt_add_length == 16 + 1")
                    ELSE IF Len(bytes) < 20 THEN IndexPanic
                    ELSE ManagementAddress_rest(
                             bytes, IpAddr_from(SubSeq(bytes, 5, 20)))
               [] OTHER -> Panic("Unknown ManagementAddressSubtype")

ManagementAddressTLV_new_from_bytes(bytes) ==
    IF Len(bytes) < 1 THEN IndexPanic
    ELSE IF type_field(bytes) # TlvType.ManagementAddress
    THEN Panic("Wrong TLV Type for ManagementAddress_Tlv")
    ELSE IF Len(bytes) < 2 THEN IndexPanic
    ELSE IF ~(length(bytes) < 512) THEN Panic("length overflow")
    ELSE IF Len(bytes) < 4 THEN IndexPanic
    ELSE LET mgmt_add_length == bytes[3]
             mgmt_add_subtype == bytes[4]
         IN  CASE mgmt_add_subtype = 1 ->
                    IF mgmt_add_length # 4 + 1
                    THEN Panic("assertion failed: mgmt_add_length == 4 + 1")
                    ELSE IF Len(bytes) < 8 THEN IndexPanic
                    ELSE ManagementAddress_rest(
                             bytes, IpAddr_from(SubSeq(bytes, 5, 8)))
               [] mgmt_add_subtype = 2 ->
                    IF mgmt_add_length # 16 + 1
                    THEN Panic("assertion failed: mgmt_add_length == 16 + 1")
                    ELSE IF Len(bytes) < 20 THEN IndexPanic
                    ELSE ManagementAddress_rest(
                             bytes, IpAddr_from(SubSeq(bytes, 5, 20)))
               [] OTHER -> Panic("Unknown ManagementAddressSubtype")

ManagementAddressTLV_len(self) ==
    8 + Len(self.oid) + (IF is_ipv4(self.value) THEN 4 ELSE 16)

\* least significant byte first
le_bytes(x) ==
    << U32AsU8(And32(x, AsU32(255))),
       U32AsU8(Shr32(And32(x, Shl32(AsU32(255), 8)), 8)),
       U32AsU8(Shr32(And32(x, Shl32(AsU32(255), 16)), 16)),
       U32AsU8(Shr32(And32(x, Shl32(AsU32(255), 24)), 24)) >>

\* u32 as four bytes, most significant first
be_bytes(x) ==
    << U32AsU8(Shr32(And32(x, Shl32(AsU32(255), 24)), 24)),
       U32AsU8(Shr32(And32(x, Shl32(AsU32(255), 16)), 16)),
       U32AsU8(Shr32(And32(x, Shl32(AsU32(255), 8)), 8)),
       U32AsU8(And32(x, AsU32(255))) >>

ManagementAddressTLV_bytes(self) ==
    header(self.tlv_type, ManagementAddressTLV_len(self))
        \o << 1 + (IF is_ipv4(self.value) THEN 4 ELSE 16),
              IF is_ipv4(self.value) THEN 1 ELSE 2 >>
        \o self.value.octets
        \o << self.subtype >>
        \o be_bytes(self.interface_number)
        \o << AsU8(Len(self.oid)) >>
        \o self.oid

(***************************************************************************)
(* OrganizationallySpecificTLV                                             *)
(***************************************************************************)
OrganizationallySpecificTLV_new(oui, subtype, value) ==
    [kind |-> "OrganizationallySpecific",
     tlv_type |-> TlvType.OrganizationallySpecific,
     oui |-> oui, subtype |-> subtype, value |-> value]

\* println!("{:?}", value) writes one line before the record is built
OrganizationallySpecificTLV_new_from_bytes(bytes) ==
    IF Len(bytes) < 1 THEN IndexPanic
    ELSE IF type_field(bytes) # TlvType.OrganizationallySpecific
    THEN Panic("Wrong TLV Type for ChassisId_Tlv")
    ELSE IF Len(bytes) < 2 THEN IndexPanic
    ELSE IF length(bytes) # Len(bytes) - 2
    THEN Panic("assertion failed: length == bytes[2..].len()")
    ELSE IF Len(bytes) < 6 THEN IndexPanic
    ELSE Return(OrganizationallySpecificTLV_new(
                    SubSeq(bytes, 3, 5), bytes[6], SubSeq(bytes, 7, Len(bytes))),
                1)

OrganizationallySpecificTLV_len(self) == 4 + Len(self.value)

\* with the subtype pushed before the oui
OrganizationallySpecificTLV_bytes_subtype_first(self) ==
    header(self.tlv_type, OrganizationallySpecificTLV_len(self))
        \o << self.subtype >> \o self.oui \o self.value

OrganizationallySpecificTLV_bytes(self) ==
    header(self.tlv_type, OrganizationallySpecificTLV_len(self))
        \o self.oui \o << self.subtype >> \o self.value

(***************************************************************************)
(* Display.  fmt() writes text to the formatter; the text is modelled as   *)
(* the bytes written.  A rendering is [text, printed]: the bytes, and the  *)
(* number of lines fmt() wrote to standard output on the way.              *)
(***************************************************************************)
Rendering(text, lines) == [text |-> text, printed |-> lines]

\* "{}" of an unsigned integer below 2^31: its decimal digits
RECURSIVE Decimal(_)
Decimal(n) == IF n < 10 THEN <<48 + n>> ELSE Decimal(n \div 10) \o <<48 + (n % 10)>>

\* "{}" of a u32
RECURSIVE Decimal32(_)
Decimal32(v) ==
    IF v.hi = 0 THEN Decimal(v.lo)
    ELSE LET r == (v.hi % 10) * 2^16 + v.lo
         IN  Decimal32(U32(v.hi \div 10, r \div 10)) \o <<48 + (r % 10)>>

\* one hexadecimal digit, upper case or lower case
HexDigit(d, upper) ==
    IF d < 10 THEN 48 + d ELSE IF upper THEN 55 + d ELSE 87 + d

\* "{:X}" of a u8: upper case, no padding
UpperHex(b) ==
    IF b < 16 THEN <<HexDigit(b, TRUE)>>
    ELSE <<HexDigit(b \div 16, TRUE), HexDigit(b % 16, TRUE)>>

\* without the fill
PadLeft2_none(str) == str

\* "{:0>2}" of a string: filled with "0" on the left up to two characters
PadLeft2(str) ==
    IF Len(str) >= 2 THEN str ELSE [i \in 1..(2 - Len(str)) |-> 48] \o str

\* "{:x}" of a u16: lower case, no padding
RECURSIVE LowerHex(_)
LowerHex(n) ==
    IF n < 16 THEN <<HexDigit(n, FALSE)>>
    ELSE LowerHex(n \div 16) \o <<HexDigit(n % 16, FALSE)>>

\* the items of a sequence of texts with sep between them
RECURSIVE Join(_, _)
Join(items, sep) ==
    IF Len(items) = 0 THEN <<>>
    ELSE IF Len(items) = 1 THEN items[1]
    ELSE items[1] \o sep \o Join(Tail(items), sep)

\* Ipv4Addr::to_string
Ipv4_to_string(o) == Join([i \in 1..4 |-> Decimal(o[i])], <<46>>)

\* the eight 16-bit segments of an Ipv6Addr
Segments(o) == [i \in 1..8 |-> o[2 * i - 1] * 256 + o[2 * i]]

\* the runs of two or more zero segments, as <<first, length>>
ZeroRuns(seg) ==
    {r \in (1..8) \X (2..8) :
         r[1] + r[2] - 1 <= 8 /\ \A k \in r[1]..(r[1] + r[2] - 1) : seg[k] = 0}

\* Ipv6Addr::to_string: an IPv4-mapped address as ::ffff:a.b.c.d, otherwise the
\* segments in hexadecimal with the first longest run of zeros written as ::
Ipv6_to_string(o) ==
    LET seg == Segments(o)
        hex(a, b) == Join([i \in 1..(b - a + 1) |-> LowerHex(seg[a + i - 1])],
                          <<58>>)
    IN  IF (\A k \in 1..5 : seg[k] = 0) /\ seg[6] = 65535
        THEN <<58, 58, 102, 102, 102, 102, 58>> \o Ipv4_to_string(SubSeq(o, 13, 16))
        ELSE IF ZeroRuns(seg) = {} THEN hex(1, 8)
        ELSE LET z == CHOOSE r \in ZeroRuns(seg) :
                          \A q \in ZeroRuns(seg) :
                              r[2] > q[2] \/ (r[2] = q[2] /\ r[1] <= q[1])
             IN  hex(1, z[1] - 1) \o <<58, 58>> \o hex(z[1] + z[2], 8)

\* IpAddr::to_string
IpAddr_to_string(value) ==
    IF is_ipv4(value) THEN Ipv4_to_string(value.octets)
    ELSE Ipv6_to_string(value.octets)

\* the string that collects "{:X}" of each byte of vec, in order
RECURSIVE UpperHexString(_)
UpperHexString(vec) ==
    IF Len(vec) = 0 THEN <<>>
    ELSE IF Len(vec) = 1 THEN UpperHex(vec[1])
    ELSE LET half == Len(vec) \div 2
         IN  UpperHexString(SubSeq(vec, 1, half))
                 \o UpperHexString(SubSeq(vec, half + 1, Len(vec)))

\* EndOfLLDPDUTLV
EndOfLLDPDUTLV_fmt(self) == Rendering(
        <<69, 110, 100, 79, 102, 76, 76, 68, 80, 68, 85, 84, 76, 86>>
       , 0)

\* TtlTLV(value)
TtlTLV_fmt(self) == Rendering(
        <<84, 116, 108, 84, 76, 86, 40>>
        \o Decimal(self.value) \o <<41>>, 0)

\* PortDescriptionTLV("value")
PortDescriptionTLV_fmt(self) ==
    Rendering(
        <<80, 111, 114, 116, 68, 101, 115, 99, 114, 105, 112, 116, 105, 111, 110, 84, 76, 86, 40, 34>>
        \o self.value \o <<34, 41>>, 0)

\* SystemNameTLV("value")
SystemNameTLV_fmt(self) ==
    Rendering(
        <<83, 121, 115, 116, 101, 109, 78, 97, 109, 101, 84, 76, 86, 40, 34>>
        \o self.value \o <<34, 41>>, 0)

\* SystemDescriptionTLV("value")
SystemDescriptionTLV_fmt(self) ==
    Rendering(
        <<83, 121, 115, 116, 101, 109, 68, 101, 115, 99, 114, 105, 112, 116, 105, 111, 110, 84, 76, 86, 40, 34>>
        \o self.value \o <<34, 41>>, 0)

\* SystemCapabilitiesTLV(supports, enabled), after println!("{} {}", supports,
\* enabled) has written one line to standard output
SystemCapabilitiesTLV_fmt(self) ==
    LET supports == Shr32(And32(self.value, U32(65535, 0)), 16)
        enabled == And32(self.value, U32(0, 65535))
    IN  Rendering(
        <<83, 121, 115, 116, 101, 109, 67, 97, 112, 97, 98, 105, 108, 105, 116, 105, 101, 115, 84, 76, 86, 40>>
        \o Decimal32(supports) \o <<44, 32>>
                      \o Decimal32(enabled) \o <<41>>, 1)

\* the string that collects, for each byte of the oid in order, "{:X}" of the
\* byte passed through "{:0>2}"
RECURSIVE oid_string(_)
oid_string(oid) ==
    IF Len(oid) = 0 THEN <<>>
    ELSE IF Len(oid) = 1 THEN PadLeft2(UpperHex(oid[1]))
    ELSE LET half == Len(oid) \div 2
         IN  oid_string(SubSeq(oid, 1, half))
                 \o oid_string(SubSeq(oid, half + 1, Len(oid)))

\* ManagementAddressTLV("value", interface_number, "oid_string")
ManagementAddressTLV_fmt(self) ==
    Rendering(
        <<77, 97, 110, 97, 103, 101, 109, 101, 110, 116, 65, 100, 100, 114, 101, 115, 115, 84, 76, 86, 40, 34>>
        \o IpAddr_to_string(self.value) \o <<34, 44, 32>>
                  \o Decimal32(self.interface_number) \o <<44, 32, 34>>
                  \o oid_string(self.oid) \o <<34, 41>>, 0)

\* OrganizationallySpecificTLV("oui", subtype, "value"), each byte of oui and
\* of value as "{:X}"
OrganizationallySpecificTLV_fmt(self) ==
    Rendering(
        <<79, 114, 103, 97, 110, 105, 122, 97, 116, 105, 111, 110, 97, 108, 108, 121, 83, 112, 101, 99, 105, 102, 105, 99, 84, 76, 86, 40, 34>>
        \o UpperHexString(self.oui) \o <<34, 44, 32>>
                  \o Decimal(self.subtype) \o <<44, 32, 34>>
                  \o UpperHexString(self.value) \o <<34, 41>>, 0)

(***************************************************************************)
(* ChassisIdTLV and PortIdTLV.  tlv.rs declares the modules chassisid_tlv  *)
(* and portid_tlv and dispatches to them; they follow the shape that is    *)
(* common to every codec: the tag is validated, the length field is read   *)
(* from the header, the payload is bytes[2 .. 2 + length]; bytes() emits   *)
(* the type octet, the length octet and the payload.                       *)
(***************************************************************************)
RawTLV_new_from_bytes(kind, bytes) ==
    IF Len(bytes) < 1 THEN IndexPanic
    ELSE IF type_field(bytes) # TlvType[kind] THEN Panic("Wrong TLV Type")
    ELSE IF Len(bytes) < 2 THEN IndexPanic
    ELSE IF Len(bytes) < 2 + length(bytes) THEN IndexPanic
    ELSE Ok([kind |-> kind, tlv_type |-> TlvType[kind],
             payload |-> SubSeq(bytes, 3, 2 + length(bytes))])

RawTLV_len(self) == Len(self.payload)

RawTLV_bytes(self) ==
    << Shl(self.tlv_type, 1, 8) + (IF RawTLV_len(self) >= 512 THEN 1 ELSE 0),
       AsU8(RawTLV_len(self)) >> \o self.payload

ChassisIdTLV_new_from_bytes(bytes) == RawTLV_new_from_bytes("ChassisId", bytes)

ChassisIdTLV_bytes(self) == RawTLV_bytes(self)

PortIdTLV_new_from_bytes(bytes) == RawTLV_new_from_bytes("PortId", bytes)

PortIdTLV_bytes(self) == RawTLV_bytes(self)

(***************************************************************************)
(* enum Tlv: the dispatcher.                                               *)
(***************************************************************************)
Tlv_get_type(self) == self.inner.tlv_type

Tlv_bytes(self) ==
    CASE self.variant = "ChassisId" -> ChassisIdTLV_bytes(self.inner)
      [] self.variant = "EndOfLldpdu" -> EndOfLLDPDUTLV_bytes(self.inner)
      [] self.variant = "ManagementAddress" ->
             ManagementAddressTLV_bytes(self.inner)
      [] self.variant = "OrganizationallySpecific" ->
             OrganizationallySpecificTLV_bytes(self.inner)
      [] self.variant = "PortId" -> PortIdTLV_bytes(self.inner)
      [] self.variant = "PortDescription" -> PortDescriptionTLV_bytes(self.inner)
      [] self.variant = "SystemDescription" ->
             SystemDescriptionTLV_bytes(self.inner)
      [] self.variant = "SystemName" -> SystemNameTLV_bytes(self.inner)
      [] self.variant = "SystemCapabilities" ->
             SystemCapabilitiesTLV_bytes(self.inner)
      [] self.variant = "Ttl" -> TtlTLV_bytes(self.inner)

\* the len() method of the struct a Tlv holds
Tlv_len(self) ==
    CASE self.variant = "ChassisId" -> RawTLV_len(self.inner)
      [] self.variant = "EndOfLldpdu" -> EndOfLLDPDUTLV_len(self.inner)
      [] self.variant = "ManagementAddress" ->
             ManagementAddressTLV_len(self.inner)
      [] self.variant = "OrganizationallySpecific" ->
             OrganizationallySpecificTLV_len(self.inner)
      [] self.variant = "PortId" -> RawTLV_len(self.inner)
      [] self.variant = "PortDescription" -> PortDescriptionTLV_len(self.inner)
      [] self.variant = "SystemDescription" ->
             SystemDescriptionTLV_len(self.inner)
      [] self.variant = "SystemName" -> SystemNameTLV_len(self.inner)
      [] self.variant = "SystemCapabilities" ->
             SystemCapabilitiesTLV_len(self.inner)
      [] self.variant = "Ttl" -> TtlTLV_len(self.inner)

\* without the two header octets
Tlv_get_length_payload(bytes) ==
    IF BitAnd(bytes[1], 1) = 1 THEN bytes[2] + 2^9 ELSE bytes[2]

Tlv_get_length(bytes) ==
    (IF BitAnd(bytes[1], 1) = 1 THEN bytes[2] + 2^9 ELSE bytes[2]) + 2

\* Tlv::Variant(XTLV::new_from_bytes(bytes)): the result r of the decoder
\* named decoder, wrapped in the variant when the decoder returns
Delegate(variant, decoder, r) ==
    [ok |-> r.ok, unwinds |-> r.unwinds, msg |-> r.msg, printed |-> r.printed,
     tlv |-> IF r.ok THEN Wrap(variant, r.tlv) ELSE NoTlv,
     decoder |-> decoder]

Tlv_from_bytes(bytes) ==
    IF Len(bytes) < 1 THEN Delegate("None", "none", IndexPanic)
    ELSE LET tf == TlvType_try_from(type_field(bytes)) IN
      CASE tf = "Err" -> Delegate("None", "none", Panic("Invalid TypeField"))
        [] tf = "EndOfLLDPDU" ->
             Delegate("EndOfLldpdu", "EndOfLLDPDUTLV",
                      EndOfLLDPDUTLV_new_from_bytes(bytes))
        [] tf = "ChassisId" ->
             Delegate("ChassisId", "ChassisIdTLV",
                      ChassisIdTLV_new_from_bytes(bytes))
        [] tf = "PortId" ->
             Delegate("PortId", "PortIdTLV", PortIdTLV_new_from_bytes(bytes))
        [] tf = "Ttl" ->
             Delegate("Ttl", "TtlTLV", TtlTLV_new_from_bytes(bytes))
        [] tf = "PortDescription" ->
             Delegate("PortDescription", "PortDescriptionTLV",
                      PortDescriptionTLV_new_from_bytes(bytes))
        [] tf = "SystemName" ->
             Delegate("SystemName", "SystemNameTLV",
                      SystemNameTLV_new_from_bytes(bytes))
        [] tf = "SystemDescription" ->
             Delegate("SystemDescription", "SystemDescriptionTLV",
                      SystemDescriptionTLV_new_from_bytes(bytes))
        [] tf = "SystemCapabilities" ->
             Delegate("SystemCapabilities", "SystemCapabilitiesTLV",
                      SystemCapabilitiesTLV_new_from_bytes(bytes))
        [] tf = "ManagementAddress" ->
             Delegate("ManagementAddress", "ManagementAddressTLV",
                      ManagementAddressTLV_new_from_bytes(bytes))
        [] tf = "OrganizationallySpecific" ->
             Delegate("OrganizationallySpecific", "OrganizationallySpecificTLV",
                      OrganizationallySpecificTLV_new_from_bytes(bytes))

\* Display for Tlv
Tlv_fmt(self) ==
    CASE self.variant = "EndOfLldpdu" -> EndOfLLDPDUTLV_fmt(self.inner)
      [] self.variant = "ManagementAddress" ->
             ManagementAddressTLV_fmt(self.inner)
      [] self.variant = "OrganizationallySpecific" ->
             OrganizationallySpecificTLV_fmt(self.inner)
      [] self.variant = "PortDescription" -> PortDescriptionTLV_fmt(self.inner)
      [] self.variant = "SystemDescription" ->
             SystemDescriptionTLV_fmt(self.inner)
      [] self.variant = "SystemName" -> SystemNameTLV_fmt(self.inner)
      [] self.variant = "SystemCapabilities" ->
             SystemCapabilitiesTLV_fmt(self.inner)
      [] self.variant = "Ttl" -> TtlTLV_fmt(self.inner)

(***************************************************************************)
(* The inputs the caller draws from.                                       *)
(***************************************************************************)
SeqsUpTo(S, n) == UNION {[1..k -> S] : k \in 0..n}

Rep(b, n) == [i \in 1..n |-> b]

\* "A", and the two bytes of U+00E9: alone they are malformed UTF-8
TextBytes == {65, 195, 169}

\* payload lengths around the limits of the length octet and of the 9-bit field
LongLens == {255, 256, 511, 512, 768}

\* String values: short ones, and long ones of one repeated letter
Texts ==
    {t \in SeqsUpTo(TextBytes, MaxText) : from_utf8_ok(t)}
        \cup {Rep(65, n) : n \in LongLens}

TtlValues == {0, 120, 255, 256, 36575, 65535}

\* the capability bitmaps over bits 0, 4 and 15, and 0x5C and 0x54
CapValues ==
    {a + b + c : a \in {0, 1}, b \in {0, 16}, c \in {0, 32768}} \cup {92, 84}

\* the capability sets asked for: the bitmaps, bit 2, bits 2 and 4, 0xF800
CapSets == CapValues \cup {4, 20, 63488}

Addresses ==
    {IpAddr_from(<<192, 0, 2, 100>>),
     IpAddr_from(<<32, 1, 0, 219, 0, 0, 0, 0, 0, 0, 0, 0, 0, 0, 0, 4>>)}

\* 5, 0x01020304 and 0xFFFFFFFF
InterfaceNumbers == {U32(0, 5), U32(258, 772), U32(65535, 65535)}

Oids ==
    {<<>>, <<43>>, <<10, 6>>, <<43, 6, 1, 4, 1, 130, 55, 21, 20>>, Rep(7, 128),
     Rep(7, 129), Rep(7, 256)}

Ouis == {<<170, 187, 204>>, <<170, 187>>, <<1, 2, 3, 4>>}

OrgValues ==
    {<<>>, <<72>>, <<15, 160>>, Rep(33, 251), Rep(33, 252), Rep(33, 508)}

\* type octets: every defined tag and two undefined ones, with the low bit
\* clear and set
WireTags == {0, 1, 2, 3, 4, 5, 6, 7, 8, 9, 126, 127}

Byte0s == {2 * t + x : t \in WireTags, x \in {0, 1}}

\* buffers received from the transport: too short for a header, or a header
\* followed by a short payload that may or may not agree with it
ShortBuffers ==
    {<<>>} \cup {<<b0>> : b0 \in Byte0s}
        \cup {<<b0, b1>> \o p : b0 \in Byte0s, b1 \in 0..(MaxPayload + 1),
                                p \in SeqsUpTo(TextBytes, MaxPayload)}

\* System Capabilities buffers [0x0E, 0x04, supported, enabled]
CapBuffers ==
    {<<14, 4, s \div 256, s % 256, e \div 256, e % 256>> :
         s \in CapValues, e \in CapValues}

\* System Capabilities buffers of six bytes whose header declares 3, 4 or 5
\* bytes, or 512 more
CapLengthBuffers ==
    {<<14 + x, n, 0, 17, 0, 1>> : x \in {0, 1}, n \in {3, 4, 5}}

\* Ttl buffers with a header that declares 1, 2 or 3 bytes
TtlBuffers ==
    {<<6, n, 0, 120>> \o p : n \in {1, 2, 3}, p \in {<<>>, <<0>>}}

\* text buffers longer than the length octet can tell: 512 + b1 letters
\* behind a header with the extension bit set, and 256 letters behind [_, 0]
LongTextBuffers ==
    {<<2 * t + 1, b1>> \o Rep(65, 512 + b1) : t \in {4, 5, 6}, b1 \in {0, 1}}
        \cup {<<2 * t, 0>> \o Rep(65, 256) : t \in {4, 5, 6}}

\* the bytes of a Management Address TLV, field by field
MgmtBuffer(x, L, alen, family, addr, ifsubtype, ifnum, n, oid) ==
    <<16 + x, L, alen, family>> \o addr \o <<ifsubtype>> \o ifnum \o <<n>>
        \o oid

\* 192.0.2.42 and 2001:db::42
MgmtAddr(A) ==
    IF A = 4 THEN <<192, 0, 2, 42>>
    ELSE <<32, 1, 0, 219, 0, 0, 0, 0, 0, 0, 0, 0, 0, 0, 0, 66>>

\* oid-length bytes around the limit of 128
OidLengths == {0, 1, 128, 129}

\* Management Address buffers: A address octets under any family byte and
\* address-string-length byte, any interface-numbering subtype, an oid-length
\* byte n in front of n - 1, n or n + 1 oid bytes, a length octet that counts
\* the payload or one more, the extension bit clear or set
MgmtBuffers ==
    {MgmtBuffer(x, 8 + A + n + dl, alen, family, MgmtAddr(A), ifsubtype,
                <<1, 2, 3, 4>>, n,
                Rep(7, IF n + d < 0 THEN 0 ELSE n + d)) :
         x \in {0, 1}, dl \in {0, 1}, alen \in {4, 5, 17},
         family \in {0, 1, 2, 3}, A \in {4, 16}, ifsubtype \in {0, 1, 3, 4},
         n \in OidLengths, d \in {-1, 0, 1}}

\* a well-formed Management Address buffer cut short at every position
MgmtPrefixes ==
    {SubSeq(MgmtBuffer(0, 14, 5, 1, MgmtAddr(4), 2, <<0, 0, 0, 5>>, 2,
                       <<43, 6>>), 1, k) : k \in 0..16}

\* Organizationally Specific buffers: oui AA BB CC, subtype 5, a value of
\* 0 to 2 bytes, a length octet that counts the payload, one less or one more
OrgBuffers ==
    {<<254 + x, 4 + n + d>> \o <<170, 187, 204, 5>> \o Rep(33, n) :
         x \in {0, 1}, n \in {0, 1, 2}, d \in {-1, 0, 1}}

Buffers ==
    ShortBuffers \cup CapBuffers \cup CapLengthBuffers \cup TtlBuffers
        \cup LongTextBuffers
        \cup MgmtBuffers \cup MgmtPrefixes \cup OrgBuffers

(***************************************************************************)
(* The state: a caller that builds a record or receives a buffer from the  *)
(* transport, turns records into bytes and decodes buffers, one call at a  *)
(* time, and drops what it holds before it starts again.                   *)
(***************************************************************************)
VARIABLES
    pc,       \* "running", or "panicked" once a call has panicked
    call,     \* the function called last
    args,     \* the arguments of the constructor called last
    ret,      \* how the last call ended
    built,    \* the record the constructor returned
    inp,      \* the buffer received, or the buffer handed to the last decoder
    inpOf,    \* where inp comes from: "transport", "out" or "none"
    loaded,   \* the record the last decoder returned
    loadedBy, \* the decoder that returned loaded, or "none"
    out,      \* the bytes the last bytes() returned
    outOf,    \* which record out was made of: "built", "loaded" or "none"
    text,     \* the text the last fmt() wrote to the formatter
    textOf,   \* which record text renders: "built", "loaded" or "none"
    printed,  \* the number of lines written to standard output so far
    answer    \* what the last call returned, when it was a query

vars ==
    <<pc, call, args, ret, built, inp, inpOf, loaded, loadedBy, out, outOf,
      text, textOf, printed, answer>>

\* the last call was not a query
NoAnswer == [args |-> <<>>, value |-> 0]

Outcome(r, decoder) == [ok |-> r.ok, msg |-> r.msg, decoder |-> decoder]

Init ==
    /\ pc = "running"
    /\ call = "none"
    /\ args = <<>>
    /\ ret = Outcome(Ok(NoTlv), "none")
    /\ built = NoTlv
    /\ inp = <<>>
    /\ inpOf = "none"
    /\ loaded = NoTlv
    /\ loadedBy = "none"
    /\ out = <<>>
    /\ outOf = "none"
    /\ text = <<>>
    /\ textOf = "none"
    /\ printed = 0
    /\ answer = NoAnswer

\* the caller holds neither a record nor a buffer
Idle == pc = "running" /\ built.variant = "None" /\ inpOf = "none"

\* a constructor call fn(a) that ended as r; the caller keeps the record as
\* Tlv::variant(record)
Construct(fn, a, variant, r) ==
    /\ call' = fn
    /\ args' = a
    /\ ret' = Outcome(r, "none")
    /\ pc' = IF r.unwinds THEN "panicked" ELSE "running"
    /\ built' = IF r.ok THEN Wrap(variant, r.tlv) ELSE NoTlv
    /\ answer' = NoAnswer
    /\ UNCHANGED <<inp, inpOf, loaded, loadedBy, out, outOf, text, textOf,
                   printed>>

NewEndOfLLDPDU ==
    /\ Idle
    /\ Construct("EndOfLLDPDUTLV::new", <<>>, "EndOfLldpdu",
                 Ok(EndOfLLDPDUTLV_new))

NewTtl ==
    /\ Idle
    /\ \E ttl \in TtlValues :
           Construct("TtlTLV::new", <<ttl>>, "Ttl", Ok(TtlTLV_new(ttl)))

NewPortDescription ==
    /\ Idle
    /\ \E value \in Texts :
           Construct("PortDescriptionTLV::new", <<value>>, "PortDescription",
                     Ok(PortDescriptionTLV_new(value)))

NewSystemName ==
    /\ Idle
    /\ \E name \in Texts :
           Construct("SystemNameTLV::new", <<name>>, "SystemName",
                     Ok(SystemNameTLV_new(name)))

NewSystemDescription ==
    /\ Idle
    /\ \E description \in Texts :
           Construct("SystemDescriptionTLV::new", <<description>>,
                     "SystemDescription",
                     Ok(SystemDescriptionTLV_new(description)))

NewSystemCapabilities ==
    /\ Idle
    /\ \E supported \in CapValues, enabled \in CapValues :
           Construct("SystemCapabilitiesTLV::new", <<supported, enabled>>,
                     "SystemCapabilities",
                     SystemCapabilitiesTLV_new(supported, enabled))

NewManagementAddress ==
    /\ Idle
    /\ \E address \in Addresses, interface_number \in InterfaceNumbers,
          ifsubtype \in {1, 2, 3}, oid \in Oids :
           Construct("ManagementAddressTLV::new",
                     <<address, interface_number, ifsubtype, oid>>,
                     "ManagementAddress",
                     Ok(ManagementAddressTLV_new(
                            address, interface_number, ifsubtype, oid)))

NewOrganizationallySpecific ==
    /\ Idle
    /\ \E oui \in Ouis, subtype \in {5, 26}, value \in OrgValues :
           Construct("OrganizationallySpecificTLV::new",
                     <<oui, subtype, value>>, "OrganizationallySpecific",
                     Ok(OrganizationallySpecificTLV_new(oui, subtype, value)))

\* the transport hands the caller a buffer
Receive ==
    /\ Idle
    /\ \E b \in Buffers :
           /\ call' = "receive"
           /\ ret' = Outcome(Ok(NoTlv), "none")
           /\ inp' = b
           /\ inpOf' = "transport"
           /\ answer' = NoAnswer
           /\ UNCHANGED <<pc, args, built, loaded, loadedBy, out, outOf, text,
                          textOf, printed>>

\* built.bytes()
BytesOfBuilt ==
    /\ pc = "running"
    /\ built.variant # "None"
    /\ call' = "Tlv::bytes"
    /\ ret' = Outcome(Ok(NoTlv), "none")
    /\ out' = Tlv_bytes(built)
    /\ outOf' = "built"
    /\ answer' = NoAnswer
    /\ UNCHANGED <<pc, args, built, inp, inpOf, loaded, loadedBy, text, textOf,
                   printed>>

\* loaded.bytes()
BytesOfLoaded ==
    /\ pc = "running"
    /\ loaded.variant # "None"
    /\ outOf # "built"
    /\ call' = "Tlv::bytes"
    /\ ret' = Outcome(Ok(NoTlv), "none")
    /\ out' = Tlv_bytes(loaded)
    /\ outOf' = "loaded"
    /\ answer' = NoAnswer
    /\ UNCHANGED <<pc, args, built, inp, inpOf, loaded, loadedBy, text, textOf,
                   printed>>

\* the caller has a buffer to decode: the bytes of the record it built, or
\* the buffer it received
HasInput == pc = "running" /\ (outOf = "built" \/ inpOf # "none")

Input == IF outOf = "built" THEN out ELSE inp

\* a decoder call fn(Input) that ended as r (r.tlv is a Tlv)
Decode(fn, r) ==
    /\ printed + r.printed <= MaxPrinted
    /\ call' = fn
    /\ ret' = Outcome(r, r.decoder)
    /\ pc' = IF r.unwinds THEN "panicked" ELSE "running"
    /\ inp' = Input
    /\ inpOf' = IF outOf = "built" THEN "out" ELSE inpOf
    /\ loaded' = r.tlv
    /\ loadedBy' = IF r.ok THEN fn ELSE "none"
    /\ out' = IF outOf = "built" THEN out ELSE <<>>
    /\ outOf' = IF outOf = "built" THEN outOf ELSE "none"
    /\ printed' = printed + r.printed
    /\ answer' = NoAnswer
    /\ UNCHANGED <<args, built, text, textOf>>

FromBytes ==
    /\ HasInput
    /\ \E r \in {Tlv_from_bytes(Input)} : Decode("Tlv::from_bytes", r)

EndOfLLDPDUFromBytes ==
    /\ HasInput
    /\ \E r \in {Delegate("EndOfLldpdu", "EndOfLLDPDUTLV",
                   EndOfLLDPDUTLV_new_from_bytes(Input))} :
           Decode("EndOfLLDPDUTLV::new_from_bytes", r)

TtlFromBytes ==
    /\ HasInput
    /\ \E r \in {Delegate("Ttl", "TtlTLV", TtlTLV_new_from_bytes(Input))} :
           Decode("TtlTLV::new_from_bytes", r)

PortDescriptionFromBytes ==
    /\ HasInput
    /\ \E r \in {Delegate("PortDescription", "PortDescriptionTLV",
                   PortDescriptionTLV_new_from_bytes(Input))} :
           Decode("PortDescriptionTLV::new_from_bytes", r)

SystemNameFromBytes ==
    /\ HasInput
    /\ \E r \in {Delegate("SystemName", "SystemNameTLV",
                   SystemNameTLV_new_from_bytes(Input))} :
           Decode("SystemNameTLV::new_from_bytes", r)

SystemDescriptionFromBytes ==
    /\ HasInput
    /\ \E r \in {Delegate("SystemDescription", "SystemDescriptionTLV",
                   SystemDescriptionTLV_new_from_bytes(Input))} :
           Decode("SystemDescriptionTLV::new_from_bytes", r)

SystemCapabilitiesFromBytes ==
    /\ HasInput
    /\ \E r \in {Delegate("SystemCapabilities", "SystemCapabilitiesTLV",
                   SystemCapabilitiesTLV_new_from_bytes(Input))} :
           Decode("SystemCapabilitiesTLV::new_from_bytes", r)

ManagementAddressFromBytes ==
    /\ HasInput
    /\ \E r \in {Delegate("ManagementAddress", "ManagementAddressTLV",
                   ManagementAddressTLV_new_from_bytes(Input))} :
           Decode("ManagementAddressTLV::new_from_bytes", r)

OrganizationallySpecificFromBytes ==
    /\ HasInput
    /\ \E r \in {Delegate("OrganizationallySpecific",
                   "OrganizationallySpecificTLV",
                   OrganizationallySpecificTLV_new_from_bytes(Input))} :
           Decode("OrganizationallySpecificTLV::new_from_bytes", r)

\* format!("{}", record) of the record built or of the record decoded.  The
\* Display of ChassisIdTLV and PortIdTLV is not in the repository.
Fmt ==
    /\ pc = "running"
    /\ \E which \in {"built", "loaded"} :
           LET self == IF which = "built" THEN built ELSE loaded IN
           /\ self.variant \notin {"None", "ChassisId", "PortId"}
           /\ \E r \in {Tlv_fmt(self)} :
                  /\ printed + r.printed <= MaxPrinted
                  /\ call' = "Display::fmt"
                  /\ ret' = Outcome(Ok(NoTlv), "none")
                  /\ text' = r.text
                  /\ textOf' = which
                  /\ printed' = printed + r.printed
                  /\ answer' = NoAnswer
                  /\ UNCHANGED <<pc, args, built, inp, inpOf, loaded,
                                 loadedBy, out, outOf>>

\* Tlv::get_length(bytes) on the buffer the caller holds; bytes[0] and
\* bytes[1] are read without a check of the length of the slice
GetLength ==
    /\ HasInput
    /\ \E short \in {Len(Input) < 2} :
           /\ call' = "Tlv::get_length"
           /\ ret' = Outcome(IF short THEN IndexPanic ELSE Ok(NoTlv), "none")
           /\ pc' = IF short THEN "panicked" ELSE "running"
           /\ answer' = IF short THEN [NoAnswer EXCEPT !.args = <<Input>>]
                         ELSE [args |-> <<Input>>,
                               value |-> Tlv_get_length(Input)]
           /\ UNCHANGED <<args, built, inp, inpOf, loaded, loadedBy, out,
                          outOf, text, textOf, printed>>

\* a query fn(capabilities) of the System Capabilities record built or
\* decoded, answered by v
Query(fn, self, capabilities, v) ==
    /\ call' = fn
    /\ ret' = Outcome(Ok(NoTlv), "none")
    /\ answer' = [args |-> <<self, capabilities>>, value |-> v]
    /\ UNCHANGED <<pc, args, built, inp, inpOf, loaded, loadedBy, out, outOf,
                   text, textOf, printed>>

\* the System Capabilities records the caller holds.  A query leaves the
\* record as it is, so the caller asks one question between two other calls.
Held ==
    {t.inner : t \in {t \in {built, loaded} :
                          t.variant = "SystemCapabilities"}}

Supports ==
    /\ pc = "running"
    /\ Len(answer.args) = 0
    /\ \E self \in Held, capabilities \in CapSets :
           Query("SystemCapabilitiesTLV::supports", self, capabilities,
                 SystemCapabilitiesTLV_supports(self, capabilities))

Enabled ==
    /\ pc = "running"
    /\ Len(answer.args) = 0
    /\ \E self \in Held, capabilities \in CapSets :
           Query("SystemCapabilitiesTLV::enabled", self, capabilities,
                 SystemCapabilitiesTLV_enabled(self, capabilities))

\* the caller drops the record, the buffers and the text it holds
Drop ==
    /\ pc = "running"
    /\ ~Idle
    /\ call' = "drop"
    /\ args' = <<>>
    /\ ret' = Outcome(Ok(NoTlv), "none")
    /\ built' = NoTlv
    /\ inp' = <<>>
    /\ inpOf' = "none"
    /\ loaded' = NoTlv
    /\ loadedBy' = "none"
    /\ out' = <<>>
    /\ outOf' = "none"
    /\ text' = <<>>
    /\ textOf' = "none"
    /\ answer' = NoAnswer
    /\ UNCHANGED <<pc, printed>>

Next ==
    \/ NewEndOfLLDPDU
    \/ NewTtl
    \/ NewPortDescription
    \/ NewSystemName
    \/ NewSystemDescription
    \/ NewSystemCapabilities
    \/ NewManagementAddress
    \/ NewOrganizationallySpecific
    \/ Receive
    \/ BytesOfBuilt
    \/ BytesOfLoaded
    \/ FromBytes
    \/ EndOfLLDPDUFromBytes
    \/ TtlFromBytes
    \/ PortDescriptionFromBytes
    \/ SystemNameFromBytes
    \/ SystemDescriptionFromBytes
    \/ SystemCapabilitiesFromBytes
    \/ ManagementAddressFromBytes
    \/ OrganizationallySpecificFromBytes
    \/ GetLength
    \/ Supports
    \/ Enabled
    \/ Fmt
    \/ Drop

Spec == Init /\ [][Next]_vars

(***************************************************************************)
(* Vocabulary of the properties.                                           *)
(***************************************************************************)
\* bit i of x
Bit(x, i) == (x \div 2^i) % 2

\* the length field the two header octets of b declare
Declared(b) == b[2] + 512 * (b[1] % 2)

\* the calls that decode a buffer
DecoderCalls ==
    {"Tlv::from_bytes", "EndOfLLDPDUTLV::new_from_bytes",
     "TtlTLV::new_from_bytes", "PortDescriptionTLV::new_from_bytes",
     "SystemNameTLV::new_from_bytes", "SystemDescriptionTLV::new_from_bytes",
     "SystemCapabilitiesTLV::new_from_bytes",
     "ManagementAddressTLV::new_from_bytes",
     "OrganizationallySpecificTLV::new_from_bytes"}

\* the record the last bytes() was called on
Dumped == IF outOf = "built" THEN built ELSE loaded

\* the tag of each variant of Tlv
TagOf(variant) ==
    CASE variant = "EndOfLldpdu" -> 0
      [] variant = "ChassisId" -> 1
      [] variant = "PortId" -> 2
      [] variant = "Ttl" -> 3
      [] variant = "PortDescription" -> 4
      [] variant = "SystemName" -> 5
      [] variant = "SystemDescription" -> 6
      [] variant = "SystemCapabilities" -> 7
      [] variant = "ManagementAddress" -> 8
      [] variant = "OrganizationallySpecific" -> 127

\* the arguments C1 calls valid
ValidBuilt ==
    CASE built.variant \in {"PortDescription", "SystemName", "SystemDescription"}
             -> Len(built.inner.value) <= 511
      [] built.variant = "ManagementAddress" -> Len(built.inner.oid) <= 128
      [] built.variant = "OrganizationallySpecific"
             -> Len(built.inner.oui) = 3 /\ Len(built.inner.value) <= 507
      [] OTHER -> TRUE

\* C1: round trip.  Decoding the bytes of a record built with valid arguments
\* succeeds and returns a record equal to it, tlv_type included.
C1_RoundTrip ==
    (call = "Tlv::from_bytes" /\ inpOf = "out" /\ ValidBuilt)
        => (ret.ok /\ loaded = built)

\* enabled & ~supported == 0 on 16-bit bitmaps
Contained(supported, enabled) ==
    \A i \in 0..15 : Bit(enabled, i) = 1 => Bit(supported, i) = 1

\* a 6-byte buffer [0x0E, 0x04, supported, enabled]
IsCapBuffer(b) == Len(b) = 6 /\ b[1] = 14 /\ b[2] = 4

\* C2: capability containment.  SystemCapabilitiesTLV::new(supported, enabled)
\* succeeds iff enabled & ~supported == 0, new_from_bytes on the 6-byte buffer
\* [0x0E, 0x04, supported, enabled] succeeds iff the same holds, and a
\* violating pair yields no record.
C2_CapabilityContainment ==
    /\ call = "SystemCapabilitiesTLV::new"
           => /\ ret.ok <=> Contained(args[1], args[2])
              /\ ~ret.ok => built = NoTlv
    /\ (call = "SystemCapabilitiesTLV::new_from_bytes" /\ IsCapBuffer(inp))
           => /\ ret.ok <=> Contained(inp[3] * 256 + inp[4], inp[5] * 256 + inp[6])
              /\ ~ret.ok => loaded = NoTlv

\* a buffer whose enabled bitmap has a bit the supported bitmap lacks was
\* decoded and rejected
C2_Witness ==
    /\ call = "SystemCapabilitiesTLV::new_from_bytes"
    /\ IsCapBuffer(inp)
    /\ ~Contained(inp[3] * 256 + inp[4], inp[5] * 256 + inp[6])
    /\ ~ret.ok

\* C3: envelope header on encode.  bytes()[0] == (tag << 1) | x, where x is 1
\* iff len() >= 512, and bytes()[1] == len() & 0xFF.
C3_EnvelopeHeader ==
    call = "Tlv::bytes"
        => /\ out[1] = 2 * Tlv_get_type(Dumped)
                         + (IF Tlv_len(Dumped) >= 512 THEN 1 ELSE 0)
           /\ out[2] = Tlv_len(Dumped) % 256

\* C4: the length field that the header of bytes() declares is len(), for
\* every len() in 0..767.
C4_LengthInverse ==
    (call = "Tlv::bytes" /\ Tlv_len(Dumped) <= 767)
        => Declared(out) = Tlv_len(Dumped)

\* C5: a decoded record reports its own kind: get_type() is the tag of the
\* variant that was decoded, which is the 7-bit tag of the buffer.
C5_TypeOfOwnKind ==
    (call \in DecoderCalls /\ ret.ok)
        => /\ Tlv_get_type(loaded) = TagOf(loaded.variant)
           /\ Tlv_get_type(loaded) = inp[1] \div 2

\* C6 as stated: a rejected input is reported as an error value and the
\* program keeps running.
C6_ErrorAsValue == ~ret.ok => pc = "running"

\* C6 as amended: a rejected input makes the call panic: no record comes
\* back, the caller unwinds and makes no further call.
C6_RejectIsPanic ==
    ~ret.ok => /\ pc = "panicked"
               /\ call \in DecoderCalls => loaded = NoTlv
               /\ call = "SystemCapabilitiesTLV::new" => built = NoTlv
               /\ ~ENABLED Next

\* Tlv::from_bytes rejected a buffer
C6_Witness == call = "Tlv::from_bytes" /\ ~ret.ok /\ pc = "panicked"

DefinedTags == {0, 1, 2, 3, 4, 5, 6, 7, 8, 127}

\* the decoder of each tag
DecoderOfTag(tag) ==
    CASE tag = 0 -> "EndOfLLDPDUTLV"
      [] tag = 1 -> "ChassisIdTLV"
      [] tag = 2 -> "PortIdTLV"
      [] tag = 3 -> "TtlTLV"
      [] tag = 4 -> "PortDescriptionTLV"
      [] tag = 5 -> "SystemNameTLV"
      [] tag = 6 -> "SystemDescriptionTLV"
      [] tag = 7 -> "SystemCapabilitiesTLV"
      [] tag = 8 -> "ManagementAddressTLV"
      [] tag = 127 -> "OrganizationallySpecificTLV"

\* C7: dispatch by tag.  Tlv::from_bytes(b) fails when b[0] >> 1 is not a
\* defined tag; otherwise it invokes the decoder of the kind with that tag,
\* whatever the low bit of b[0], and returns the variant of that kind when the
\* decoder succeeds.
C7_DispatchByTag ==
    (call = "Tlv::from_bytes" /\ Len(inp) >= 1)
        => IF inp[1] \div 2 \in DefinedTags
           THEN /\ ret.decoder = DecoderOfTag(inp[1] \div 2)
                /\ ret.ok => TagOf(loaded.variant) = inp[1] \div 2
           ELSE ~ret.ok /\ ret.decoder = "none"

\* a buffer with the low bit of the type octet set was dispatched and decoded
C7_Witness ==
    /\ call = "Tlv::from_bytes"
    /\ Len(inp) >= 1
    /\ inp[1] % 2 = 1
    /\ ret.ok
    /\ TagOf(loaded.variant) = inp[1] \div 2

\* C8: EndOfLLDPDUTLV::new_from_bytes fails on every buffer that declares a
\* non-zero length.
C8_EndOfLLDPDUNonZeroLength ==
    (call = "EndOfLLDPDUTLV::new_from_bytes" /\ Len(inp) >= 2
         /\ Declared(inp) # 0)
        => ~ret.ok

\* C9: TtlTLV::new_from_bytes fails on every buffer that declares a length
\* other than 2, whatever follows the header.
C9_TtlLengthNot2 ==
    (ret.decoder = "TtlTLV" /\ Len(inp) >= 2 /\ Declared(inp) # 2)
        => ~ret.ok /\ pc = "panicked"

\* the buffer [0x06, 0x03, 0x00, 0x78, 0x00] was rejected
C9_Witness ==
    /\ call = "TtlTLV::new_from_bytes"
    /\ inp = <<6, 3, 0, 120, 0>>
    /\ ~ret.ok

\* C10: Ttl wire format.  TtlTLV::new(s).bytes() is [0x06, 0x02, s >> 8,
\* s & 0xFF], and new_from_bytes on four such bytes returns value == s.
C10_TtlWireFormat ==
    /\ (call = "Tlv::bytes" /\ outOf = "built" /\ built.variant = "Ttl")
           => out = <<6, 2, built.inner.value \div 256,
                      built.inner.value % 256>>
    /\ (call = "TtlTLV::new_from_bytes" /\ Len(inp) = 4 /\ inp[1] = 6
            /\ inp[2] = 2)
           => ret.ok /\ loaded.inner.value = inp[3] * 256 + inp[4]

\* TtlTLV::new(36575) was encoded and decoded again
C10_Witness ==
    /\ call = "TtlTLV::new_from_bytes"
    /\ inpOf = "out"
    /\ built.variant = "Ttl"
    /\ built.inner.value = 36575
    /\ ret.ok
    /\ loaded.inner.value = 36575

\* the number of address octets of the family in bytes[3]
AddrOctets(b) == IF b[4] = 1 THEN 4 ELSE 16

\* a Management Address buffer that is well formed up to and including its
\* oid-length byte
MgmtUpToOid(b) ==
    /\ Len(b) >= 4
    /\ b[1] = 16
    /\ b[4] \in {1, 2}
    /\ b[3] = AddrOctets(b) + 1
    /\ Len(b) >= 10 + AddrOctets(b)
    /\ b[5 + AddrOctets(b)] \in {1, 2, 3}

\* its oid-length byte, and the number of bytes it holds after that byte
OidLengthByte(b) == b[10 + AddrOctets(b)]
OidBytesHeld(b) == Len(b) - (10 + AddrOctets(b))

\* C11: Management Address oid boundary.  On an otherwise well-formed buffer
\* with oid-length byte n, new_from_bytes succeeds with those n bytes as oid
\* when n <= 128 and the buffer holds n oid bytes; it fails when n >= 129 and
\* when the buffer holds fewer than n oid bytes.
C11_OidBoundary ==
    (ret.decoder = "ManagementAddressTLV" /\ MgmtUpToOid(inp))
        => /\ (OidLengthByte(inp) <= 128
                   /\ OidBytesHeld(inp) = OidLengthByte(inp))
                  => /\ ret.ok
                     /\ loaded.inner.oid =
                            SubSeq(inp, 11 + AddrOctets(inp), Len(inp))
           /\ OidLengthByte(inp) >= 129 => ~ret.ok
           /\ OidBytesHeld(inp) < OidLengthByte(inp) => ~ret.ok

\* a buffer with an oid of 128 bytes was decoded
C11_Witness ==
    /\ call = "ManagementAddressTLV::new_from_bytes"
    /\ MgmtUpToOid(inp)
    /\ OidLengthByte(inp) = 128
    /\ OidBytesHeld(inp) = 128
    /\ ret.ok
    /\ Len(loaded.inner.oid) = 128

\* C12: every ManagementAddress record, built or decoded, has an oid of at
\* most 128 bytes.
C12_OidAtMost128 ==
    /\ built.variant = "ManagementAddress" => Len(built.inner.oid) <= 128
    /\ loaded.variant = "ManagementAddress" => Len(loaded.inner.oid) <= 128

\* C13: every OrganizationallySpecific record, built or decoded, has an oui of
\* exactly 3 bytes.
C13_OuiIs3Bytes ==
    /\ built.variant = "OrganizationallySpecific" => Len(built.inner.oui) = 3
    /\ loaded.variant = "OrganizationallySpecific" => Len(loaded.inner.oui) = 3

\* C14: length consistency.  For every record a constructor or a decoder
\* returned, len() equals bytes().len() - 2.
C14_LengthConsistency ==
    call = "Tlv::bytes" => Tlv_len(Dumped) = Len(out) - 2

TextDecoders ==
    {"PortDescriptionTLV", "SystemNameTLV", "SystemDescriptionTLV"}

\* C15: text-valued decoders.  new_from_bytes fails when the bytes after the
\* header are not valid UTF-8 and when their number differs from the declared
\* length; on success value is the text of those bytes and len() is the
\* declared length.
C15_TextDecoders ==
    (ret.decoder \in TextDecoders /\ Len(inp) >= 2)
        => /\ ~from_utf8_ok(SubSeq(inp, 3, Len(inp))) => ~ret.ok
           /\ Len(inp) - 2 # Declared(inp) => ~ret.ok
           /\ ret.ok => /\ loaded.inner.value = SubSeq(inp, 3, Len(inp))
                        /\ Tlv_len(loaded) = Declared(inp)

\* PortDescriptionTLV::new_from_bytes rejected [0x08, 0x01, 0x41, 0x41]: valid
\* text, one byte more than declared
C15_Witness ==
    /\ call = "PortDescriptionTLV::new_from_bytes"
    /\ inp = <<8, 1, 65, 65>>
    /\ ~ret.ok
    /\ loaded = NoTlv

\* C16: length overflow.  The decoders of PortDescription, SystemName,
\* SystemDescription and ManagementAddress fail on every buffer whose declared
\* length is >= 512.
C16_LengthOverflow ==
    (ret.decoder \in TextDecoders \cup {"ManagementAddressTLV"}
         /\ Len(inp) >= 2 /\ Declared(inp) >= 512)
        => ~ret.ok

\* C17: bytes() of a record whose payload length is >= 768 fails and returns
\* no bytes.
C17_EncodeOutOfRange ==
    (call = "Tlv::bytes" /\ Tlv_len(Dumped) >= 768)
        => ~ret.ok /\ out = <<>>

\* C18: Management Address wire layout.  For a record with an oid of at most
\* 128 bytes, bytes() is [0x10, L, A + 1, F, address octets, subtype, interface
\* number as 4 big-endian bytes, oid length, oid bytes] with L = 8 + A + oid
\* length, A = 4 and F = 1 for IPv4, A = 16 and F = 2 for IPv6.
C18_MgmtWireLayout ==
    (call = "Tlv::bytes" /\ Dumped.variant = "ManagementAddress"
         /\ Len(Dumped.inner.oid) <= 128)
        => LET r == Dumped.inner
               A == Len(r.value.octets)
           IN  /\ A = IF r.value.v4 THEN 4 ELSE 16
               /\ out = <<16, 8 + A + Len(r.oid), A + 1, IF A = 4 THEN 1 ELSE 2>>
                          \o r.value.octets
                          \o <<r.subtype>>
                          \o <<r.interface_number.hi \div 256,
                               r.interface_number.hi % 256,
                               r.interface_number.lo \div 256,
                               r.interface_number.lo % 256>>
                          \o <<Len(r.oid)>>
                          \o r.oid

\* the record of 192.0.2.100, interface number 5, subtype Unknown and oid
\* 2B0601040182371514 was encoded
C18_Witness ==
    /\ call = "Tlv::bytes"
    /\ outOf = "built"
    /\ built.variant = "ManagementAddress"
    /\ out = <<16, 21, 5, 1, 192, 0, 2, 100, 1, 0, 0, 0, 5, 9, 43, 6, 1, 4, 1,
               130, 55, 21, 20>>

\* C19: Management Address sub-field validation.  new_from_bytes fails when
\* bytes[3] is neither 1 nor 2, when bytes[2] is not 5 for IPv4 or 17 for IPv6,
\* and when the interface-numbering subtype byte is not 1, 2 or 3.
C19_MgmtSubFields ==
    (ret.decoder = "ManagementAddressTLV" /\ Len(inp) >= 4)
        => /\ inp[4] \notin {1, 2} => ~ret.ok
           /\ (inp[4] \in {1, 2} /\ inp[3] # AddrOctets(inp) + 1) => ~ret.ok
           /\ (inp[4] \in {1, 2} /\ Len(inp) >= 5 + AddrOctets(inp)
                   /\ inp[5 + AddrOctets(inp)] \notin {1, 2, 3})
                  => ~ret.ok

\* a buffer that is well formed but for an interface-numbering subtype of 4
\* was rejected
C19_Witness ==
    /\ call = "ManagementAddressTLV::new_from_bytes"
    /\ Len(inp) >= 10 + 4
    /\ inp[1] = 16 /\ inp[3] = 5 /\ inp[4] = 1
    /\ inp[9] = 4
    /\ inp[14] = 0
    /\ ~ret.ok

\* C20: no side effects.  No decoder call, no bytes() and no fmt() writes to
\* standard output.
C20_NoStdout ==
    [][call' \in DecoderCalls \cup {"Tlv::bytes", "Display::fmt"}
           => printed' = printed]_vars

\* C21: SystemCapabilitiesTLV::new_from_bytes fails on every buffer whose
\* declared length, bytes[1] plus 512 when the low bit of bytes[0] is set, is
\* not 4.
C21_CapLengthNot4 ==
    (call = "SystemCapabilitiesTLV::new_from_bytes" /\ Len(inp) >= 2
         /\ Declared(inp) # 4)
        => (~ret.ok /\ loaded = NoTlv)

\* six bytes with the tag 7 and a well-formed payload behind a header that
\* declares 5 bytes are rejected by the assertion on the length
C21_Witness ==
    /\ call = "SystemCapabilitiesTLV::new_from_bytes"
    /\ inp = <<14, 5, 0, 17, 0, 1>>
    /\ ~ret.ok
    /\ ret.msg = "length for SystemCapabilitiesTlv should be 4"

\* C22: for every buffer of at least 2 bytes, Tlv::get_length(bytes) returns
\* the payload length bytes[1], plus 512 when the low bit of bytes[0] is set,
\* and nothing else added.
C22_GetLengthIsPayloadLength ==
    (call = "Tlv::get_length" /\ Len(answer.args[1]) >= 2)
        => answer.value = Declared(answer.args[1])

\* C22, as the code has it: for every buffer of at least 2 bytes,
\* Tlv::get_length(bytes) returns the length of the packed TLV, which is
\* bytes[1], plus 512 when the low bit of bytes[0] is set, plus 2 for the
\* two header octets.
C22_GetLengthIsPackedLength ==
    (call = "Tlv::get_length" /\ Len(answer.args[1]) >= 2)
        => (ret.ok /\ answer.value = Declared(answer.args[1]) + 2)

\* the header [0x03, 0x04] declares 516 bytes and get_length answers 518
C22_Witness ==
    /\ call = "Tlv::get_length"
    /\ answer.args = << <<3, 4>> >>
    /\ answer.value = 518

\* C23: re-encoding reproduces the wire bytes: for every buffer b that
\* Tlv::from_bytes accepts, Tlv::from_bytes(b).bytes() is b byte for byte.
C23_ReencodeReproduces ==
    (call = "Tlv::bytes" /\ outOf = "loaded" /\ loadedBy = "Tlv::from_bytes")
        => out = inp

\* C24: every record decoder parses only buffer[2 .. 2+length], where length
\* is the declared length: a buffer that carries extra bytes after position
\* 2+length is accepted whenever the buffer without them is, and decodes to
\* an equal record.
C24_TrailingBytesIgnored ==
    (call = "Tlv::from_bytes" /\ Len(inp) >= 2 /\ Len(inp) > 2 + Declared(inp))
        => LET r == Tlv_from_bytes(SubSeq(inp, 1, 2 + Declared(inp)))
           IN  r.ok => (ret.ok /\ loaded = r.tlv)

\* the tags of the kinds whose decoder is in the repository
OwnTags == DefinedTags \ {1, 2}

\* the message of the panic of the decoder of each tag on another tag
WrongTypeMessage(tag) ==
    CASE tag = 0 -> "Wrong TLV Type for EndOfLLDPDU"
      [] tag = 3 -> "Wrong TLV Type for TTL"
      [] tag = 4 -> "Wrong TLV Type for PortDescription"
      [] tag = 5 -> "Wrong TLV Type for SystemName"
      [] tag = 6 -> "Wrong TLV Type for SystemDescription"
      [] tag = 7 -> "Wrong TLV Type for SystemCapabilities"
      [] tag = 8 -> "Wrong TLV Type for ManagementAddress_Tlv"
      [] tag = 127 -> "Wrong TLV Type for ChassisId_Tlv"

\* C25: each per-kind new_from_bytes fails on every buffer whose 7-bit tag
\* bytes[0] >> 1 is not the tag of its own kind, and it does so on the tag
\* alone, before it looks at the length octet or at a payload byte: the call
\* ends in the panic of the tag check whatever follows the type octet.
C25_TypeMismatch ==
    \A tag \in OwnTags :
        (ret.decoder = DecoderOfTag(tag) /\ Len(inp) >= 1
             /\ inp[1] \div 2 # tag)
            => /\ ~ret.ok
               /\ loaded = NoTlv
               /\ ret.msg = WrongTypeMessage(tag)

\* ManagementAddressTLV::new_from_bytes on the single byte [0x0E], the type
\* octet of a System Capabilities TLV, ends in the panic of the tag check
C25_Witness ==
    /\ call = "ManagementAddressTLV::new_from_bytes"
    /\ inp = <<14>>
    /\ ~ret.ok
    /\ ret.msg = "Wrong TLV Type for ManagementAddress_Tlv"

\* the caller holds a System Capabilities record built from args
CapBuilt == built.variant = "SystemCapabilities"

\* C26: System Capabilities layout.  For every accepted pair (supported,
\* enabled), new stores value = (supported << 16) | enabled; bytes() is
\* [0x0E, 0x04, supported >> 8, supported & 0xFF, enabled >> 8,
\* enabled & 0xFF]; new_from_bytes on those six bytes yields the same value;
\* and the record renders as SystemCapabilitiesTLV(supported, enabled), the
\* two numbers being value >> 16 and value & 0xFFFF in decimal.
C26_CapLayout ==
    /\ (call = "SystemCapabilitiesTLV::new" /\ ret.ok)
           => built.inner.value = U32(args[1], args[2])
    /\ (call = "Tlv::bytes" /\ outOf = "built" /\ CapBuilt)
           => out = <<14, 4, args[1] \div 256, args[1] % 256,
                      args[2] \div 256, args[2] % 256>>
    /\ (call \in {"SystemCapabilitiesTLV::new_from_bytes", "Tlv::from_bytes"}
            /\ inpOf = "out" /\ CapBuilt)
           => (ret.ok /\ loaded.inner.value = built.inner.value)
    /\ (call = "Display::fmt" /\ textOf = "built" /\ CapBuilt)
           => text = <<83, 121, 115, 116, 101, 109, 67, 97, 112, 97, 98, 105,
                       108, 105, 116, 105, 101, 115, 84, 76, 86, 40>>
                         \o Decimal(args[1]) \o <<44, 32>>
                         \o Decimal(args[2]) \o <<41>>

\* the record built from 0x5C and 0x54 was dumped as 0E 04 00 5C 00 54,
\* decoded from those bytes, and rendered as SystemCapabilitiesTLV(92, 84)
C26_Witness ==
    /\ call = "Display::fmt"
    /\ textOf = "built"
    /\ CapBuilt
    /\ args = <<92, 84>>
    /\ built.inner.value = U32(92, 84)
    /\ out = <<14, 4, 0, 92, 0, 84>>
    /\ inpOf = "out"
    /\ loaded = built
    /\ text = <<83, 121, 115, 116, 101, 109, 67, 97, 112, 97, 98, 105, 108,
                105, 116, 105, 101, 115, 84, 76, 86, 40, 57, 50, 44, 32, 56,
                52, 41>>

\* C27: Organizationally Specific layout.  For a record with a 3-byte oui,
\* bytes() emits the two header octets, then the 3 oui bytes, the subtype
\* byte and the value bytes in that order, and len() is 4 + the length of
\* value.  new_from_bytes(b) accepts b only when the declared length equals
\* the number of bytes after the header, and then returns oui = b[2..5],
\* subtype = b[5], value = b[6..].
C27_OrgLayout ==
    /\ (call = "Tlv::bytes" /\ Dumped.variant = "OrganizationallySpecific"
            /\ Len(Dumped.inner.oui) = 3)
           => /\ Len(out) = 6 + Len(Dumped.inner.value)
              /\ SubSeq(out, 3, 5) = Dumped.inner.oui
              /\ out[6] = Dumped.inner.subtype
              /\ SubSeq(out, 7, Len(out)) = Dumped.inner.value
              /\ Tlv_len(Dumped) = 4 + Len(Dumped.inner.value)
    /\ (ret.decoder = "OrganizationallySpecificTLV" /\ ret.ok)
           => /\ Len(inp) >= 6
              /\ Declared(inp) = Len(inp) - 2
              /\ loaded.inner.oui = SubSeq(inp, 3, 5)
              /\ loaded.inner.subtype = inp[6]
              /\ loaded.inner.value = SubSeq(inp, 7, Len(inp))

\* FE 06 AA BB CC 05 21 21 was decoded to oui AA BB CC, subtype 5 and value
\* 21 21, and the record was dumped as the same eight bytes
C27_Witness ==
    /\ call = "Tlv::bytes"
    /\ outOf = "loaded"
    /\ inp = <<254, 6, 170, 187, 204, 5, 33, 33>>
    /\ loaded.inner.oui = <<170, 187, 204>>
    /\ loaded.inner.subtype = 5
    /\ loaded.inner.value = <<33, 33>>
    /\ out = inp

\* 0xF800, the bits the tests call reserved
ReservedBits == 63488

\* C28: capability queries.  For every System Capabilities record and every
\* 16-bit set c, supports(c) is true if and only if every bit of c is set in
\* the upper 16 bits of value, enabled(c) is true if and only if every bit of
\* c is set in the lower 16 bits of value, and a set that contains a reserved
\* bit is reported as not supported.
C28_CapabilityQueries ==
    /\ call = "SystemCapabilitiesTLV::supports"
           => /\ answer.value
                    = (BitAnd(answer.args[2], answer.args[1].value.hi)
                           = answer.args[2])
              /\ BitAnd(answer.args[2], ReservedBits) # 0
                    => answer.value = FALSE
    /\ call = "SystemCapabilitiesTLV::enabled"
           => answer.value
                  = (BitAnd(answer.args[2], answer.args[1].value.lo)
                         = answer.args[2])

\* the record the last fmt() rendered
Rendered == IF textOf = "built" THEN built ELSE loaded

\* two upper-case hexadecimal digits for each byte of oid, in order
HexPairs(oid) ==
    [i \in 1..(2 * Len(oid)) |->
        IF i % 2 = 1 THEN HexDigit(oid[(i + 1) \div 2] \div 16, TRUE)
        ELSE HexDigit(oid[i \div 2] % 16, TRUE)]

\* oids to compare the rendered one with: those of the constructor, and the
\* single byte 0xA6
OtherOids == Oids \cup {<<166>>}

\* C29: Management Address rendering.  The record renders as
\* ManagementAddressTLV("address", interface_number, "OID"), where OID is the
\* concatenation, in order, of each oid byte as exactly two upper-case
\* hexadecimal digits, so that OID has 2 * oid length characters and the same
\* record with another oid renders differently.
C29_MgmtRendering ==
    (call = "Display::fmt" /\ Rendered.variant = "ManagementAddress")
        => LET self == Rendered.inner IN
           /\ text = <<77, 97, 110, 97, 103, 101, 109, 101, 110, 116, 65, 100,
                       100, 114, 101, 115, 115, 84, 76, 86, 40, 34>>
                         \o IpAddr_to_string(self.value) \o <<34, 44, 32>>
                         \o Decimal32(self.interface_number)
                         \o <<44, 32, 34>> \o HexPairs(self.oid) \o <<34, 41>>
           /\ \A oid \in OtherOids \ {self.oid} :
                  ManagementAddressTLV_fmt([self EXCEPT !.oid = oid]).text
                      # text

\* the record of the tests, with the oid 2B 06 01 04 01 82 37 15 14, renders
\* as ManagementAddressTLV("192.0.2.100", 5, "2B0601040182371514")
C29_Witness ==
    /\ call = "Display::fmt"
    /\ textOf = "built"
    /\ built.variant = "ManagementAddress"
    /\ built.inner.oid = <<43, 6, 1, 4, 1, 130, 55, 21, 20>>
    /\ text = <<77, 97, 110, 97, 103, 101, 109, 101, 110, 116, 65, 100, 100,
                114, 101, 115, 115, 84, 76, 86, 40, 34, 49, 57,
                50, 46, 48, 46, 50, 46, 49, 48, 48, 34, 44, 32,
                53, 44, 32, 34, 50, 66, 48, 54, 48, 49, 48, 52,
                48, 49, 56, 50, 51, 55, 49, 53, 49, 52, 34, 41>>

\* the values of the length octet bytes[1]
LengthOctets == 0..255

\* C30: the outcome of ManagementAddressTLV::new_from_bytes does not depend
\* on the TLV length octet.  Two buffers with the tag 8 and the extension bit
\* clear that differ only in bytes[1] are both rejected, or both decode to
\* records with equal address, interface-numbering subtype, interface number
\* and oid.
C30_LengthOctetIgnored ==
    (call = "ManagementAddressTLV::new_from_bytes" /\ Len(inp) >= 2
         /\ inp[1] = 16)
        => \A l \in LengthOctets :
               LET r == ManagementAddressTLV_new_from_bytes(
                            [inp EXCEPT ![2] = l])
               IN  /\ r.ok = ret.ok
                   /\ ret.ok => r.tlv = loaded.inner

\* a buffer whose length octet does not count the bytes after the header
\* was decoded to a record
C30_Witness ==
    /\ call = "ManagementAddressTLV::new_from_bytes"
    /\ Len(inp) >= 2
    /\ inp[1] = 16
    /\ inp[2] # Len(inp) - 2
    /\ ret.ok
    /\ loaded.variant = "ManagementAddress"

====
